---- MODULE Spec2Model ----
(***************************************************************************)
(* Model of collectionmaker.py: one batch pass of process_movie_nfo_files  *)
(* (resolve the identifier index, walk the sidecars, group them, emit one  *)
(* artifact per group and fetch artwork), run up to MaxRuns times over the *)
(* same library, output directory and bulk identifier export.              *)
(*                                                                         *)
(* Strings that the code transforms (collection names) are sequences of    *)
(* one-character strings.  An optional value is <<>> when absent.          *)
(***************************************************************************)
EXTENDS Integers, Sequences, FiniteSets, TLC

\* ---------------------------------------------------------------- bounds
MaxFiles == 2        \* sidecar files in the library
MaxLines == 2        \* lines in the bulk identifier export
MaxRuns  == 2        \* invocations of the program over the same inputs

\* ---------------------------------------------------------------- values
None == <<>>         \* Python None for optional strings / paths
NoId == 0            \* Python None for a collection id (ids are positive)

VIDEO_EXTENSIONS == <<".mp4", ".mkv", ".avi", ".mov", ".flv", ".wmv", ".webm", ".m4v">>

DefaultOverview == "No overview available."

\* Raw collection names found in sidecars (set/name).
RawNames == { <<"A">>, <<"B", "/", "C">> }

\* str.replace('/', ' - ') on a sequence of characters (line 214).
RECURSIVE Replace(_)
Replace(s) ==
    IF s = <<>> THEN <<>>
    ELSE (IF Head(s) = "/" THEN <<" ", "-", " ">> ELSE <<Head(s)>>) \o Replace(Tail(s))

NormNames == { Replace(n) : n \in RawNames }

\* ------------------------------------------------------------ the library
\* A sidecar document as the parser sees it: the sidecars of collection A carry
\* a set/overview, one genre and one studio; those of B/C no overview, two
\* genres and no studio.
Meta(n) ==
    IF n = <<"A">>
    THEN [setOverview |-> <<"Local overview">>, genres |-> <<"Action">>, studios |-> <<"Fox">>]
    ELSE [setOverview |-> <<>>, genres |-> <<"Action", "Drama">>, studios |-> <<>>]

Malformed ==
    [wellFormed |-> FALSE, setName |-> None, setOverview |-> <<>>,
     genres |-> <<>>, studios |-> <<>>]

Docs ==
    {Malformed} \cup
    { [wellFormed |-> TRUE, setName |-> None, setOverview |-> <<>>,
       genres |-> <<"Action">>, studios |-> <<>>] } \cup
    { [wellFormed |-> TRUE, setName |-> n, setOverview |-> Meta(n).setOverview,
       genres |-> Meta(n).genres, studios |-> Meta(n).studios] : n \in RawNames }

\* Extensions of the files that share the sidecar's base name in its directory.
ExtSets == { {}, {".mkv", ".avi"} }

\* A library entry: the sidecar document and its directory's video files.
\* A sidecar that names no collection is never looked up (line 212), so its
\* directory is left empty.
Sidecars ==
    { s \in [doc : Docs, exts : ExtSets] : s.doc.setName = None => s.exts = {} }

Libraries == UNION { [1..n -> Sidecars] : n \in 0..MaxFiles }

\* --------------------------------------------------- the output directory
\* Content of an artifact left by an earlier, unrelated invocation.
OldContent ==
    [Overview |-> "old", LocalTitle |-> None, Genres |-> <<>>, Studios |-> <<>>,
     Paths |-> <<>>, CollectionID |-> NoId]

\* ------------------------------------------------------- remote responses
\* Lines of the bulk identifier export.
EntryLines ==
    { [kind |-> "entry", name |-> <<"A">>, id |-> 1],
      [kind |-> "entry", name |-> Replace(<<"B", "/", "C">>), id |-> 2] }

BadLines ==
    { [kind |-> "badjson", name |-> None, id |-> NoId],     \* json.loads raises JSONDecodeError
      [kind |-> "nokeys",  name |-> None, id |-> NoId] }    \* valid JSON without name/id

ExportLines == EntryLines \cup BadLines

ExportFiles ==
    { [kind |-> k, lines |-> <<>>] : k \in {"neterr", "badstatus", "badgzip", "badutf8"} } \cup
    { [kind |-> "ok", lines |-> l] : l \in UNION { [1..n -> ExportLines] : n \in 0..MaxLines } }

\* Responses of GET /3/collection/{id}.
ProviderData ==
    { [overview |-> <<"Remote overview">>, genres |-> <<"Comedy">>, companies |-> <<"Fox">>],
      [overview |-> <<>>, genres |-> <<"Comedy", "Comedy">>, companies |-> <<>>] }

NoData == [overview |-> <<>>, genres |-> <<>>, companies |-> <<>>]

MetaResponses ==
    { [kind |-> "ok", info |-> d] : d \in ProviderData } \cup
    { [kind |-> k, info |-> NoData] :
        k \in {"empty", "badstatus", "neterr", "decodeerr_caught", "decodeerr_escapes"} }

\* Responses of GET /3/collection/{id}/images, and of the image downloads.
Img(lang, f) == [iso_639_1 |-> lang, file_path |-> f]

BackdropCatalogs == { <<>>, <<Img("fr", 1), Img("en", 2)>> }

PosterCatalogs == { <<>>, <<Img("fr", 1)>> }

ImageResponses ==
    { [kind |-> "ok", backdrops |-> b, posters |-> p, dlBackdrop |-> db, dlPoster |-> dp] :
        b \in BackdropCatalogs, p \in PosterCatalogs, db \in BOOLEAN, dp \in BOOLEAN } \cup
    { [kind |-> k, backdrops |-> <<>>, posters |-> <<>>, dlBackdrop |-> FALSE, dlPoster |-> FALSE] :
        k \in {"badstatus", "exc"} }

\* ------------------------------------------------------------------ state
VARIABLES
    library,         \* the sidecars under library_dir, in os.walk order
    api_key,         \* TRUE iff --key is a non-empty string
    overwrite,       \* --overwrite of the current invocation
    artifacts,       \* output_dir: collection name -> content of <name>.xml
    backdrop,        \* output_dir/backdrop.jpg: None or <<collection id, image>>
    poster,          \* output_dir/poster.jpg:   None or <<collection id, image>>
    pc,              \* "start", "discover", "emit", "done", "aborted"
    run,             \* number of the current invocation
    collection_ids,  \* the identifier index of this invocation
    collections,     \* the dict of groups: name -> [Movies, CollectionId]
    order,           \* insertion order of the keys of collections
    idx,             \* position of the discover loop / of the emit loop
    events,          \* what this invocation has done so far (history)
    fs0              \* the output directory as it was when this invocation began

vars == <<library, api_key, overwrite, artifacts, backdrop, poster, pc, run,
          collection_ids, collections, order, idx, events, fs0>>

\* ---------------------------------------------------------------- helpers
EmptyMap == <<>>

Put(m, k, v) == [x \in (DOMAIN m) \cup {k} |-> IF x = k THEN v ELSE m[x]]

\* dict.get(k, None) on the identifier index
Get(m, k) == IF k \in DOMAIN m THEN m[k] ELSE NoId

Range(s) == { s[i] : i \in DOMAIN s }

\* ---------------------------------------------------------- Sidecar Parser
parse_movie_nfo(doc) ==
    [raised |-> ~doc.wellFormed,                        \* ET.parse raises ParseError
     data   |-> [LocalTitle     |-> "Unknown Title",
                 TmdbId         |-> "Unknown",
                 CollectionName |-> doc.setName,
                 Overview       |-> IF doc.setOverview = <<>> THEN DefaultOverview
                                    ELSE doc.setOverview[1],
                 Genres         |-> doc.genres,
                 Studios        |-> doc.studios]]

\* ----------------------------------------------------------- Video Locator
RECURSIVE FirstExt(_, _)
FirstExt(k, exts) ==
    IF k > Len(VIDEO_EXTENSIONS) THEN None
    ELSE IF VIDEO_EXTENSIONS[k] \in exts THEN <<VIDEO_EXTENSIONS[k]>>
    ELSE FirstExt(k + 1, exts)

\* The video file of sidecar number i, or None.
find_video_file_for_nfo(i, exts) ==
    IF FirstExt(1, exts) = None THEN None ELSE <<i>> \o FirstExt(1, exts)

\* --------------------------------------------------- Collection ID Resolver
\* The loop over the lines (144-149): a KeyError escapes, a JSONDecodeError
\* skips the line, a later entry replaces an earlier one of the same name.
RECURSIVE ParseLines(_, _)
ParseLines(lines, acc) ==
    IF lines = <<>> THEN [raised |-> FALSE, ids |-> acc]
    ELSE IF Head(lines).kind = "badjson" THEN ParseLines(Tail(lines), acc)
    ELSE IF Head(lines).kind = "nokeys" THEN [raised |-> TRUE, ids |-> EmptyMap]
    ELSE ParseLines(Tail(lines), Put(acc, Head(lines).name, Head(lines).id))

download_and_extract_collection_ids(resp) ==
    CASE resp.kind \in {"neterr", "badstatus"} -> [raised |-> FALSE, ids |-> EmptyMap]
      [] resp.kind \in {"badgzip", "badutf8"}  -> [raised |-> TRUE,  ids |-> EmptyMap]
      [] OTHER                                 -> ParseLines(resp.lines, EmptyMap)

\* --------------------------------------------------- Remote Metadata Client
Defaults == [Overview |-> DefaultOverview, Genres |-> <<>>, Studios |-> <<>>]

fetch_collection_data_from_tmdb(tmdb_id, movie_data, key, resp) ==
    IF ~key
    THEN [raised |-> "Overview" \notin DOMAIN movie_data,     \* movie_data['Overview']
          requested |-> FALSE, data |-> Defaults]
    ELSE CASE resp.kind = "ok" ->
                [raised |-> FALSE, requested |-> TRUE,
                 data |-> [Overview |-> IF resp.info.overview = <<>> THEN DefaultOverview
                                        ELSE resp.info.overview[1],
                           Genres   |-> resp.info.genres,
                           Studios  |-> resp.info.companies]]
           [] resp.kind = "decodeerr_escapes" ->
                [raised |-> TRUE, requested |-> TRUE, data |-> Defaults]
           [] OTHER ->
                [raised |-> FALSE, requested |-> TRUE, data |-> Defaults]

\* ----------------------------------------------------------- Artifact Writer
\* os.path.join(library_dir, rel)
Join(rel) == <<"library_dir">> \o rel

create_collection_xml(collection_name, collection_data, exists, collection_id, ow) ==
    [raised  |-> \E i \in DOMAIN collection_data.Movies :
                     collection_data.Movies[i].FullRelativePath = None,   \* join(dir, None)
     write   |-> ~(exists /\ ~ow),
     content |-> [Overview     |-> collection_data.Overview,
                  LocalTitle   |-> collection_name,
                  Genres       |-> collection_data.Genres,
                  Studios      |-> collection_data.Studios,
                  Paths        |-> [i \in DOMAIN collection_data.Movies |->
                                       Join(collection_data.Movies[i].FullRelativePath)],
                  CollectionID |-> collection_id]]

\* ----------------------------------------------------------- Artwork Fetcher
\* The first English image, else the first image, else nothing.
RECURSIVE FirstEnglish(_)
FirstEnglish(cat) ==
    IF cat = <<>> THEN None
    ELSE IF Head(cat).iso_639_1 = "en" THEN <<Head(cat).file_path>>
    ELSE FirstEnglish(Tail(cat))

Select(cat) ==
    IF FirstEnglish(cat) # None THEN FirstEnglish(cat)
    ELSE IF cat # <<>> THEN <<cat[1].file_path>>
    ELSE None

\* download_image: the file is written only if the download succeeds.
download_image(collection_id, sel, ok, old) ==
    IF sel # None /\ ok THEN <<collection_id>> \o sel ELSE old

fetch_collection_images(collection_id, resp, oldBackdrop, oldPoster) ==
    IF resp.kind # "ok"
    THEN [backdrop |-> oldBackdrop, poster |-> oldPoster, wroteBackdrop |-> FALSE,
          wrotePoster |-> FALSE]
    ELSE [backdrop |-> download_image(collection_id, Select(resp.backdrops),
                                      resp.dlBackdrop, oldBackdrop),
          poster   |-> download_image(collection_id, Select(resp.posters),
                                      resp.dlPoster, oldPoster),
          wroteBackdrop |-> Select(resp.backdrops) # None /\ resp.dlBackdrop,
          wrotePoster   |-> Select(resp.posters) # None /\ resp.dlPoster]

\* ------------------------------------------------------ Aggregation Engine
Event(kind, name) == <<kind, name>>

\* A regeneration test that skips on the wrong value of the flag.
SkipExistingInverted(exists, ow) == exists /\ ow

\* The regeneration test of the emit loop (line 235).
SkipExisting(exists, ow) == exists /\ ~ow

\* An exception that nothing catches ends the invocation.
Abort(exception, name) ==
    /\ pc' = "aborted"
    /\ events' = events \cup {Event(exception, name)}
    /\ UNCHANGED <<library, api_key, overwrite, artifacts, backdrop, poster, run,
                   collection_ids, collections, order, idx, fs0>>

Init ==
    /\ library \in Libraries
    /\ api_key \in BOOLEAN
    /\ overwrite \in BOOLEAN
    /\ artifacts \in { [n \in S |-> OldContent] : S \in SUBSET NormNames }
    /\ backdrop = None
    /\ poster = None
    /\ pc = "start"
    /\ run = 1
    /\ collection_ids = EmptyMap
    /\ collections = EmptyMap
    /\ order = <<>>
    /\ idx = 1
    /\ events = {}
    /\ fs0 = [artifacts |-> artifacts, backdrop |-> None, poster |-> None]

\* Lines 195-200: the identifier index is downloaded only with a provider key.
\* The export of the day is the same for every invocation: a later invocation
\* downloads a file from which the resolver returns what it returned before
\* (collection_ids still holds the index of the previous, completed invocation).
ResolveIds ==
    /\ pc = "start"
    /\ IF api_key
       THEN \E f \in ExportFiles :
              LET r == download_and_extract_collection_ids(f) IN
              /\ run > 1 => (~r.raised /\ r.ids = collection_ids)
              /\ IF r.raised
                 THEN /\ pc' = "aborted"
                      /\ events' = events \cup {Event("ResolverError", None)}
                      /\ UNCHANGED collection_ids
                 ELSE /\ pc' = "discover"
                      /\ collection_ids' = r.ids
                      /\ UNCHANGED events
       ELSE /\ pc' = "discover"
            /\ collection_ids' = EmptyMap
            /\ UNCHANGED events
    /\ UNCHANGED <<library, api_key, overwrite, artifacts, backdrop, poster, run,
                   collections, order, idx, fs0>>

\* Lines 203-229: one iteration of the walk over the sidecars.
DiscoverStep ==
    /\ pc = "discover"
    /\ idx <= Len(library)
    /\ LET parsed     == parse_movie_nfo(library[idx].doc)
           movie_data == parsed.data
       IN
       IF parsed.raised
       THEN Abort("ParseError", None)
       ELSE /\ IF movie_data.CollectionName # None
               THEN LET collection_name == Replace(movie_data.CollectionName)
                        video_file == find_video_file_for_nfo(idx, library[idx].exts)
                        group == IF collection_name \in DOMAIN collections
                                 THEN collections[collection_name]
                                 ELSE [Movies |-> <<>>,
                                       CollectionId |-> Get(collection_ids, collection_name)]
                        movie == [LocalTitle |-> movie_data.LocalTitle,
                                  TmdbId |-> movie_data.TmdbId,
                                  FullRelativePath |-> video_file]
                    IN
                    /\ collections' = Put(collections, collection_name,
                                          [group EXCEPT !.Movies = Append(@, movie)])
                    /\ order' = IF collection_name \in DOMAIN collections
                                THEN order ELSE Append(order, collection_name)
               ELSE UNCHANGED <<collections, order>>
            /\ idx' = idx + 1
            /\ UNCHANGED <<library, api_key, overwrite, artifacts, backdrop,
                           poster, pc, run, collection_ids, events, fs0>>

\* The walk is over: the emit loop begins (line 232).
DiscoverEnd ==
    /\ pc = "discover"
    /\ idx > Len(library)
    /\ pc' = "emit"
    /\ idx' = 1
    /\ UNCHANGED <<library, api_key, overwrite, artifacts, backdrop, poster,
                   run, collection_ids, collections, order, events, fs0>>

\* Lines 232-251: one iteration of the emit loop.
EmitStep ==
    /\ pc = "emit"
    /\ idx <= Len(order)
    /\ LET collection_name == order[idx]
           collection_data == collections[collection_name]
           exists          == collection_name \in DOMAIN artifacts
           id              == collection_data.CollectionId
       IN
       IF SkipExisting(exists, overwrite)
       THEN /\ events' = events \cup {Event("skip_existing", collection_name)}
            /\ idx' = idx + 1
            /\ UNCHANGED <<library, api_key, overwrite, artifacts, backdrop,
                           poster, pc, run, collection_ids, collections, order, fs0>>
       ELSE IF id = NoId
       THEN /\ events' = events \cup {Event("skip_no_id", collection_name)}
            /\ idx' = idx + 1
            /\ UNCHANGED <<library, api_key, overwrite, artifacts, backdrop,
                           poster, pc, run, collection_ids, collections, order, fs0>>
       ELSE \E resp \in MetaResponses, img \in ImageResponses :
            LET tmdb    == fetch_collection_data_from_tmdb(id, collection_data.Movies[1],
                                                           api_key, resp)
                updated == [Movies |-> collection_data.Movies, CollectionId |-> id,
                            Overview |-> tmdb.data.Overview, Genres |-> tmdb.data.Genres,
                            Studios |-> tmdb.data.Studios]
                \* line 245 passes no overwrite argument: the default False applies
                xml     == create_collection_xml(collection_name, updated, exists, id, FALSE)
                art     == fetch_collection_images(id, img, backdrop, poster)
                evMeta  == {Event("meta_request", collection_name)} \cup
                           (IF resp.kind \in {"ok", "empty"} THEN {}
                            ELSE {Event("meta_failed", collection_name)})
            IN
            IF tmdb.raised
            THEN Abort(IF api_key THEN "DecodeError" ELSE "KeyError", collection_name)
            ELSE IF xml.raised
            THEN Abort("TypeError", collection_name)
            ELSE /\ artifacts' = IF xml.write
                                 THEN Put(artifacts, collection_name, xml.content)
                                 ELSE artifacts
                 /\ backdrop' = IF api_key THEN art.backdrop ELSE backdrop
                 /\ poster' = IF api_key THEN art.poster ELSE poster
                 /\ events' = events \cup evMeta
                        \cup {Event("xml_called", collection_name)}
                        \cup (IF xml.write THEN {Event("xml_written", collection_name)} ELSE {})
                        \cup (IF api_key THEN {Event("image_request", collection_name)} ELSE {})
                        \cup (IF api_key /\ art.wroteBackdrop
                              THEN {Event("backdrop_written", collection_name)} ELSE {})
                        \cup (IF api_key /\ art.wrotePoster
                              THEN {Event("poster_written", collection_name)} ELSE {})
                 /\ idx' = idx + 1
                 /\ UNCHANGED <<library, api_key, overwrite, pc, run,
                                collection_ids, collections, order, fs0>>

\* The emit loop is over: process_movie_nfo_files returns.
EmitEnd ==
    /\ pc = "emit"
    /\ idx > Len(order)
    /\ pc' = "done"
    /\ UNCHANGED <<library, api_key, overwrite, artifacts, backdrop, poster,
                   run, collection_ids, collections, order, idx, events, fs0>>

\* The program is invoked again after a completed pass, with overwrite
\* disabled, over the same library, key, export and output directory.
RunAgain ==
    /\ pc = "done"
    /\ run < MaxRuns
    /\ run' = run + 1
    /\ overwrite' = FALSE
    /\ pc' = "start"
    /\ collections' = EmptyMap
    /\ order' = <<>>
    /\ idx' = 1
    /\ events' = {}
    /\ fs0' = [artifacts |-> artifacts, backdrop |-> backdrop, poster |-> poster]
    /\ UNCHANGED <<library, api_key, artifacts, backdrop, poster, collection_ids>>

Next ==
    \/ ResolveIds
    \/ DiscoverStep
    \/ DiscoverEnd
    \/ EmitStep
    \/ EmitEnd
    \/ RunAgain

Spec == Init /\ [][Next]_vars

TypeOK ==
    /\ pc \in {"start", "discover", "emit", "done", "aborted"}
    /\ run \in 1..MaxRuns
    /\ DOMAIN artifacts \subseteq NormNames
    /\ DOMAIN collections \subseteq NormNames
    /\ Range(order) = DOMAIN collections
    /\ \A n \in DOMAIN collections : collections[n].Movies # <<>>

\* ================================================================ claims
\* The emit loop has finished the iteration of the k-th group.
Processed(k) == pc = "done" \/ (pc = "emit" /\ k < idx)

Did(kind, name) == Event(kind, name) \in events

HasId(name) == collections[name].CollectionId # NoId

\* The group passes the minimum-membership policy of FILTER (two movies).
Surviving(name) == Len(collections[name].Movies) >= 2

\* The sidecars that belong to a group and have a video file.
MembersOf(name) ==
    { i \in DOMAIN library :
        /\ library[i].doc.wellFormed
        /\ library[i].doc.setName # None
        /\ Replace(library[i].doc.setName) = name
        /\ find_video_file_for_nfo(i, library[i].exts) # None }

\* The group's metadata merged from its sidecars: the overview of the first
\* member, the union of the members' genres and studios.
FirstMember(name) == CHOOSE i \in MembersOf(name) : \A j \in MembersOf(name) : i <= j

LocalOverview(name) == parse_movie_nfo(library[FirstMember(name)].doc).data.Overview

LocalGenres(name) == UNION { Range(library[i].doc.genres) : i \in MembersOf(name) }

LocalStudios(name) == UNION { Range(library[i].doc.studios) : i \in MembersOf(name) }

CarriesLocalValues(name) ==
    /\ MembersOf(name) # {}
    /\ artifacts[name].Overview = LocalOverview(name)
    /\ Range(artifacts[name].Genres) = LocalGenres(name)
    /\ Range(artifacts[name].Studios) = LocalStudios(name)

NoDuplicates(s) == \A i, j \in DOMAIN s : s[i] = s[j] => i = j

\* C1: a group that EMIT reaches with overwrite set and an artifact already at
\* its path has the Artifact Writer called and its file rewritten (emission is
\* skipped only when the file exists and overwrite is not set).  Stated for the
\* groups with a resolved identifier, the ones the code hands to the writer.
C1_OverwriteRewrites ==
    \A k \in DOMAIN order :
        (/\ Processed(k)
         /\ Surviving(order[k])
         /\ overwrite
         /\ order[k] \in DOMAIN fs0.artifacts
         /\ HasId(order[k]))
            => (Did("xml_called", order[k]) /\ Did("xml_written", order[k]))

\* C2: a surviving group (two members or more) with no remote identifier, or
\* processed without a provider key, is still emitted, and its artifact carries
\* the overview, genres and studios merged from the member sidecars.
C2_NoIdStillEmitted ==
    \A k \in DOMAIN order :
        (/\ Processed(k)
         /\ Surviving(order[k])
         /\ Cardinality(MembersOf(order[k])) >= 2
         /\ (~api_key \/ ~HasId(order[k]))
         /\ ~(order[k] \in DOMAIN fs0.artifacts /\ ~overwrite))
            => (/\ Did("xml_written", order[k])
                /\ order[k] \in DOMAIN artifacts
                /\ CarriesLocalValues(order[k]))

\* C3: for a group that ends GROUP with fewer than 2 members no artifact is
\* written and no enrichment or artwork step is performed.
C3_SmallGroupNotEmitted ==
    \A n \in DOMAIN collections :
        (pc \in {"emit", "done", "aborted"} /\ Len(collections[n].Movies) < 2)
            => (/\ ~Did("xml_written", n)
                /\ ~Did("meta_request", n)
                /\ ~Did("image_request", n))

\* C4: a sidecar that is not well-formed is skipped; its ParseError never ends
\* the run, so the well-formed sidecars are still grouped and emitted.
C4_ParseErrorConfined == ~Did("ParseError", None)

\* C5: a sidecar without a video file yields no Path entry in any artifact and
\* does not abort the run (no exception from the missing path escapes), so the
\* other members and collections are still emitted.
C5_MissingVideoSkipped ==
    /\ \A n \in DOMAIN artifacts : \A i \in DOMAIN artifacts[n].Paths :
          artifacts[n].Paths[i] # Join(None)
    /\ \A n \in DOMAIN collections : ~Did("TypeError", n)

\* C6: when the provider metadata request of a surviving group fails and the
\* run goes on, the group's artifact carries the local pre-enrichment values
\* and the image catalog is not requested for that group.
C6_FailedEnrichmentFallsBack ==
    \A n \in DOMAIN collections :
        (Surviving(n) /\ Did("meta_failed", n))
            => (/\ Did("xml_written", n) => CarriesLocalValues(n)
                /\ ~Did("image_request", n))

WriteEvents == {"xml_written", "backdrop_written", "poster_written"}

\* C7: an invocation with overwrite disabled that follows a completed
\* invocation over the same inputs writes no file: no artifact, no backdrop.jpg,
\* no poster.jpg, and the output directory stays as it was.
C7_SecondRunWritesNothing ==
    (run > 1 /\ ~overwrite)
        => (/\ \A e \in events : e[1] \notin WriteEvents
            /\ artifacts = fs0.artifacts
            /\ backdrop = fs0.backdrop
            /\ poster = fs0.poster)

\* C7 witness: a second invocation has completed over a group that the first one
\* enriched, emitted and fetched artwork for.
C7_Witness ==
    /\ run > 1
    /\ ~overwrite
    /\ pc = "done"
    /\ \E n \in DOMAIN collections :
          /\ HasId(n)
          /\ Did("skip_existing", n)
          /\ artifacts[n].CollectionID = collections[n].CollectionId
          /\ backdrop # None
          /\ backdrop[1] = collections[n].CollectionId

\* C8: the Genres and the Studios of every artifact the run emits hold no name
\* twice and are the union of the member movies' genre and studio names.
C8_GenresAreUnion ==
    \A n \in DOMAIN collections :
        (Surviving(n) /\ Did("xml_written", n))
            => (/\ NoDuplicates(artifacts[n].Genres)
                /\ NoDuplicates(artifacts[n].Studios)
                /\ Range(artifacts[n].Genres) = LocalGenres(n)
                /\ Range(artifacts[n].Studios) = LocalStudios(n))

\* C9: no exception escapes the Collection ID Resolver: on a network failure,
\* bad status, decompression or decode failure it returns an empty mapping, a
\* malformed line is skipped, and the run continues into DISCOVER.
C9_ResolverNeverRaises == ~Did("ResolverError", None)

\* C10: the backdrop written for a collection is not overwritten by the
\* artwork of a collection processed later: it still is that collection's image.
C10_ArtworkPerCollection ==
    \A n \in DOMAIN collections :
        Did("backdrop_written", n) => (backdrop # None /\ backdrop[1] = collections[n].CollectionId)

====
